---- MODULE Spec2Model ----
(***************************************************************************)
(* A model of src/src/elements.tsx: the element builder createElement, the *)
(* node classes TextNode and RenderNode, and the helpers they use          *)
(* (toKebabCase, the two escapers, attributesToString, flattenContents,    *)
(* isVoidElement).                                                         *)
(*                                                                         *)
(* JavaScript strings are TLA+ strings; a character is a string of length  *)
(* 1.  JavaScript values are records tagged by their runtime type in the   *)
(* field t.  Objects with identity (attribute maps, nodes) live in the two *)
(* heaps maps and nodes and are referred to by their index; the reference  *)
(* 0 is the value undefined.                                               *)
(***************************************************************************)
EXTENDS Integers, Sequences, FiniteSets, TLC

VARIABLES
    maps,        \* heap of the caller's attribute objects: ref -> entries in insertion order
    nodes,       \* heap of TextNode / RenderNode objects: ref -> fields
    calls,       \* number of createElement calls made so far
    handlerLog,  \* the invocations of custom element handlers, in order
    last,        \* the last createElement call: its arguments and what it returned
    watch        \* the toString calls on one node: the first output, the latest, and
                 \* whether a createElement call came in between

vars == <<maps, nodes, calls, handlerLog, last, watch>>

(***************************************************************************)
(* Characters                                                              *)
(***************************************************************************)

\* U+00A0, the non-breaking space of the attribute escaper's regex (line 42).
NBSP == " "

\* The printable ASCII characters in code order: codes 32 to 95, and codes 97
\* to 126 (code 96, the grave accent, is left out).
AsciiLow == " !\"#$%&'()*+,-./0123456789:;<=>?@ABCDEFGHIJKLMNOPQRSTUVWXYZ[\\]^_"

AsciiHigh == "abcdefghijklmnopqrstuvwxyz{|}~"

\* String.fromCharCode on the codes 32..95 and 97..126.
fromCharCode(code) ==
    IF code < 96 THEN SubSeq(AsciiLow, code - 31, code - 31)
    ELSE SubSeq(AsciiHigh, code - 96, code - 96)

\* input[index], index counted from 0 as in the source.
charAt(input, index) == SubSeq(input, index + 1, index + 1)

\* The code of each character of the two tables.
codeOf ==
    [c \in {fromCharCode(code) : code \in (32..95) \cup (97..126)} |->
        CHOOSE code \in (32..95) \cup (97..126) : fromCharCode(code) = c]

\* String.prototype.charCodeAt on the characters the model uses.
charCodeAt(input, index) ==
    LET c == charAt(input, index)
    IN  IF c = NBSP THEN 160 ELSE codeOf[c]

capitalACharCode == 65

capitalZCharCode == 90

isUpper(input, index) ==
    LET charCode == charCodeAt(input, index)
    IN  capitalACharCode <= charCode /\ capitalZCharCode >= charCode

\* String.prototype.toLowerCase on one character.
toLowerCase(c) ==
    LET code == charCodeAt(c, 0)
    IN  IF 65 <= code /\ code <= 90
        THEN fromCharCode(code + 32)
        ELSE c

(***************************************************************************)
(* toKebabCase                                                             *)
(***************************************************************************)

\* The loop of toKebabCase from index i on: what is appended to kebabCased.
RECURSIVE toKebabCaseFrom(_, _)
toKebabCaseFrom(camelCased, i) ==
    IF ~(i < Len(camelCased)) THEN ""
    ELSE LET prevUpperCased == IF i > 0 THEN isUpper(camelCased, i - 1) ELSE TRUE
             currentUpperCased == isUpper(camelCased, i)
             nextUpperCased == IF i < Len(camelCased) - 1
                               THEN isUpper(camelCased, i + 1) ELSE TRUE
             piece == IF (~prevUpperCased /\ currentUpperCased)
                         \/ (currentUpperCased /\ ~nextUpperCased)
                      THEN "-" \o toLowerCase(charAt(camelCased, i))
                      ELSE charAt(camelCased, i)
         IN  piece \o toKebabCaseFrom(camelCased, i + 1)

toKebabCase(camelCased) == toKebabCaseFrom(camelCased, 0)

(***************************************************************************)
(* Values                                                                  *)
(***************************************************************************)

Str(s) == [t |-> "string", s |-> s]
Num(n) == [t |-> "number", n |-> n]
Bool(b) == [t |-> "boolean", b |-> b]
DateOf(day, ms) == [t |-> "date", day |-> day, ms |-> ms]
Null == [t |-> "null"]
Undefined == [t |-> "undefined"]
NodeRef(n) == [t |-> "node", ref |-> n]
Arr(items) == [t |-> "array", items |-> items]
Fn(h) == [t |-> "function", h |-> h]
Obj(entries) == [t |-> "object", entries |-> entries]

Digits == "0123456789"

\* Number.prototype.toString on a non-negative integer.
RECURSIVE natToString(_)
natToString(n) ==
    IF n < 10 THEN SubSeq(Digits, n + 1, n + 1)
    ELSE natToString(n \div 10) \o SubSeq(Digits, (n % 10) + 1, (n % 10) + 1)

\* Number.prototype.toString on an integer.
numberToString(n) == IF n < 0 THEN "-" \o natToString(-n) ELSE natToString(n)

\* n as a decimal of exactly w digits (String.prototype.padStart with "0").
RECURSIVE pad(_, _)
pad(n, w) == IF w = 0 THEN "" ELSE pad(n \div 10, w - 1) \o natToString(n % 10)

\* Date.prototype.toISOString of the date whose time value is days * 86400000
\* + rest milliseconds after the epoch (days >= 0, 0 <= rest < 86400000; the
\* time value is kept in two parts to stay within 32 bits):
\* YYYY-MM-DDTHH:mm:ss.sssZ in UTC, by the proleptic Gregorian calendar.
toISOString(days, rest) ==
    LET z    == days + 719468
        era  == z \div 146097
        doe  == z - era * 146097
        yoe  == (doe - doe \div 1460 + doe \div 36524 - doe \div 146096) \div 365
        doy  == doe - (365 * yoe + yoe \div 4 - yoe \div 100)
        mp   == (5 * doy + 2) \div 153
        d    == doy - (153 * mp + 2) \div 5 + 1
        m    == IF mp < 10 THEN mp + 3 ELSE mp - 9
        y    == yoe + era * 400 + (IF m <= 2 THEN 1 ELSE 0)
    IN  pad(y, 4) \o "-" \o pad(m, 2) \o "-" \o pad(d, 2) \o "T"
        \o pad(rest \div 3600000, 2) \o ":" \o pad((rest \div 60000) % 60, 2) \o ":"
        \o pad((rest \div 1000) % 60, 2) \o "." \o pad(rest % 1000, 3) \o "Z"

\* '' + value, the string concatenation of lines 92 and 165, for the
\* primitive values.
concatToString(value) ==
    CASE value.t = "string"    -> value.s
      [] value.t = "number"    -> numberToString(value.n)
      [] value.t = "boolean"   -> IF value.b THEN "true" ELSE "false"
      [] value.t = "null"      -> "null"
      [] value.t = "undefined" -> "undefined"

\* The truthiness of a value, as the condition of an if tests it.
truthy(value) ==
    CASE value.t = "string"    -> value.s # ""
      [] value.t = "number"    -> value.n # 0
      [] value.t = "boolean"   -> value.b
      [] value.t = "null"      -> FALSE
      [] value.t = "undefined" -> FALSE
      [] OTHER                 -> TRUE

(***************************************************************************)
(* The escapers                                                            *)
(***************************************************************************)

\* escapeAttrChar with the quote left out of the pattern.
escapeAttrCharNoQuote(c) ==
    IF c = "&" THEN "&amp;"
    ELSE IF c = NBSP THEN "&nbsp;"
    ELSE c

\* The replacement function of escapeAttrNodeValue for one matched character.
escapeAttrChar(c) ==
    IF c = "&" THEN "&amp;"
    ELSE IF c = "\"" THEN "&quot;"
    ELSE IF c = NBSP THEN "&nbsp;"
    ELSE c

\* value.replace(/(&)|(")|(\u00A0)/g, ...): one pass over value, each match
\* replaced, the replacements not scanned again.
RECURSIVE escapeAttrNodeValue(_)
escapeAttrNodeValue(value) ==
    IF value = "" THEN ""
    ELSE escapeAttrChar(charAt(value, 0)) \o escapeAttrNodeValue(Tail(value))

\* s.replace(/c/g, by) for a one-character pattern c.
RECURSIVE replaceAll(_, _, _)
replaceAll(s, c, by) ==
    IF s = "" THEN ""
    ELSE (IF charAt(s, 0) = c THEN by ELSE charAt(s, 0)) \o replaceAll(Tail(s), c, by)

\* escapeContent with the ampersand replaced last instead of first.
escapeContentAmpersandLast(s) ==
    replaceAll(replaceAll(replaceAll(replaceAll(s, "<", "&lt;"),
                                     ">", "&gt;"),
                          "\"", "&quot;"),
               "&", "&amp;")

\* The four replace calls of flattenContents, in the order of the source.
escapeContent(s) ==
    replaceAll(replaceAll(replaceAll(replaceAll(s, "&", "&amp;"),
                                     "<", "&lt;"),
                          ">", "&gt;"),
               "\"", "&quot;")

(***************************************************************************)
(* Attributes                                                              *)
(***************************************************************************)

\* Object.keys(attributes): the keys in insertion order (the model's keys
\* are never integer-like, so insertion order is the enumeration order).
keysOf(entries) == [i \in 1..Len(entries) |-> entries[i].k]

hasKey(entries, name) == \E i \in 1..Len(entries) : entries[i].k = name

\* attributes[name]: undefined when the object has no such key.
lookup(entries, name) ==
    IF hasKey(entries, name)
    THEN entries[CHOOSE i \in 1..Len(entries) : entries[i].k = name].v
    ELSE Undefined

\* delete attributes[name]
deleteKey(entries, name) == SelectSeq(entries, LAMBDA e : e.k # name)

\* value?.toString() ?? '' for the values that are neither Date nor boolean.
valueToString(value) ==
    CASE value.t = "string"    -> value.s
      [] value.t = "number"    -> numberToString(value.n)
      [] value.t = "null"      -> ""
      [] value.t = "undefined" -> ""

makeAttribute(formattedName, value) == formattedName \o "=\"" \o value \o "\""

attributeToString(attributes, name) ==
    LET value == lookup(attributes.entries, name)
        formattedName == toKebabCase(name)
    IN  IF value.t = "date"
        THEN makeAttribute(formattedName, toISOString(value.day, value.ms))
        ELSE IF value.t = "boolean"
             THEN (IF value.b THEN formattedName ELSE "")
             ELSE makeAttribute(formattedName, escapeAttrNodeValue(valueToString(value)))

\* Array.prototype.join(sep) on a sequence of strings.
RECURSIVE join(_, _)
join(strings, sep) ==
    IF Len(strings) = 0 THEN ""
    ELSE IF Len(strings) = 1 THEN strings[1]
    ELSE strings[1] \o sep \o join(Tail(strings), sep)

attributesToString(attributes) ==
    IF attributes.t = "object"
    THEN LET names == keysOf(attributes.entries)
             mapped == [i \in 1..Len(names) |-> attributeToString(attributes, names[i])]
             filtered == SelectSeq(mapped, LAMBDA attribute : Len(attribute) # 0)
         IN  " " \o join(filtered, " ")
    ELSE ""

(***************************************************************************)
(* flattenContents                                                         *)
(***************************************************************************)

\* flattenContents with the results of a nested array pushed after the rest
\* instead of in place.
RECURSIVE flattenContentsArraysLast(_)
flattenContentsArraysLast(contents) ==
    IF Len(contents) = 0 THEN <<>>
    ELSE LET content == Head(contents)
         IN  IF content.t = "array"
             THEN flattenContentsArraysLast(Tail(contents))
                  \o flattenContentsArraysLast(content.items)
             ELSE (IF content.t = "node" THEN <<content>>
                   ELSE <<Str(escapeContent(concatToString(content)))>>)
                  \o flattenContentsArraysLast(Tail(contents))

RECURSIVE flattenContents(_)
flattenContents(contents) ==
    IF Len(contents) = 0 THEN <<>>
    ELSE LET content == Head(contents)
             pushed == IF content.t = "node" THEN <<content>>
                       ELSE IF content.t = "array" THEN flattenContents(content.items)
                       ELSE <<Str(escapeContent(concatToString(content)))>>
         IN  pushed \o flattenContents(Tail(contents))

(***************************************************************************)
(* Nodes                                                                   *)
(***************************************************************************)

voidElements ==
    <<"area", "base", "br", "col", "command", "embed", "hr", "img", "input",
      "keygen", "link", "meta", "param", "source", "track", "wbr">>

\* [...].indexOf(tagName) > -1
isVoidElement(tagName) == \E i \in 1..Len(voidElements) : voidElements[i] = tagName

TextNode(contents) == [cls |-> "TextNode", contents |-> contents]

RenderNode(tagName, attributes, children) ==
    [cls |-> "RenderNode", tagName |-> tagName, attributes |-> attributes,
     children |-> children]

\* The object an attributes reference denotes: 0 is undefined.
deref(heap, attributes) == IF attributes = 0 THEN Undefined ELSE Obj(heap[attributes])

\* rendersSelfClosed without the test of the children.
rendersSelfClosedVoidOnly(node) == isVoidElement(node.tagName)

\* The branch condition of RenderNode.toString.
rendersSelfClosed(node) == isVoidElement(node.tagName) /\ ~(Len(node.children) # 0)

\* toString of the node n of the heap ns, the attribute objects being ms:
\* TextNode.toString and RenderNode.toString.
RECURSIVE toString(_, _, _)
toString(ns, ms, n) ==
    LET node == ns[n]
    IN  IF node.cls = "TextNode" THEN node.contents
        ELSE LET attrs == attributesToString(deref(ms, node.attributes))
                 rendered == [i \in 1..Len(node.children) |->
                                 IF node.children[i].t = "string"
                                 THEN node.children[i].s
                                 ELSE toString(ns, ms, node.children[i].ref)]
                 contents == IF Len(node.children) > 0 THEN join(rendered, "") ELSE ""
             IN  IF rendersSelfClosed(node)
                 THEN "<" \o node.tagName \o attrs \o ">"
                 ELSE "<" \o node.tagName \o attrs \o ">" \o contents
                      \o "</" \o node.tagName \o ">"

(***************************************************************************)
(* createElement                                                           *)
(***************************************************************************)

\* The condition of line 163: attributes && attributes['dangerousInnerHtml'].
overwrites(ms, attributes) ==
    attributes # 0 /\ truthy(lookup(ms[attributes], "dangerousInnerHtml"))

\* afterDelete deleting the last key of the object instead of the reserved one.
afterDeleteLast(entries) == SubSeq(entries, 1, Len(entries) - 1)

\* The attribute object after line 166.
afterDelete(entries) == deleteKey(entries, "dangerousInnerHtml")

\* Lines 162-167: the contents to flatten, and the two heaps after the step.
overwriteContents(ns, ms, attributes, rawContents) ==
    IF overwrites(ms, attributes)
    THEN [contents |-> <<NodeRef(Len(ns) + 1)>>,
          nodes |-> Append(ns, TextNode(concatToString(
                        lookup(ms[attributes], "dangerousInnerHtml")))),
          maps |-> [ms EXCEPT ![attributes] = afterDelete(@)]]
    ELSE [contents |-> rawContents, nodes |-> ns, maps |-> ms]

\* A custom element handler of the caller (the interface of lines 9-11): it
\* wraps what it is given in a section element.
Section(ns, attributes, contents) ==
    [nodes |-> Append(ns, RenderNode("section", attributes, contents)),
     ret |-> Len(ns) + 1]

\* dispatch building an element around what the handler returned.
dispatchWrapping(ns, name, attributes, contents) ==
    IF name.t = "function"
    THEN LET flat == flattenContents(contents)
             r == Section(ns, attributes, flat)
         IN  [nodes |-> Append(r.nodes, RenderNode(name.h, attributes, <<NodeRef(r.ret)>>)),
              ret |-> r.ret + 1,
              invoked |-> <<[h |-> name.h, attributes |-> attributes,
                             contents |-> flat, ret |-> r.ret]>>]
    ELSE LET tagName == toKebabCase(name.s)
             node == RenderNode(tagName, attributes, flattenContents(contents))
         IN  [nodes |-> Append(ns, node), ret |-> Len(ns) + 1, invoked |-> <<>>]

\* Lines 169-179: the handler call or the new RenderNode.  The result names
\* the node heap after the step, the reference returned, and the handler
\* invocations made.
dispatch(ns, name, attributes, contents) ==
    IF name.t = "function"
    THEN LET flat == flattenContents(contents)
             r == Section(ns, attributes, flat)
         IN  [nodes |-> r.nodes, ret |-> r.ret,
              invoked |-> <<[h |-> name.h, attributes |-> attributes,
                             contents |-> flat, ret |-> r.ret]>>]
    ELSE LET tagName == toKebabCase(name.s)
             node == RenderNode(tagName, attributes, flattenContents(contents))
         IN  [nodes |-> Append(ns, node), ret |-> Len(ns) + 1, invoked |-> <<>>]

NoCall ==
    [name |-> Undefined, attributes |-> 0, before |-> Undefined, rawContents |-> <<>>,
     nodesBefore |-> 0, logBefore |-> 0, ret |-> 0]

NoWatch == [node |-> 0, first |-> "", latest |-> "", phase |-> "none"]

\* One call createElement(name, attributes, ...rawContents).
createElement(name, attributes, rawContents) ==
    LET o == overwriteContents(nodes, maps, attributes, rawContents)
        b == dispatch(o.nodes, name, attributes, o.contents)
    IN  /\ maps' = o.maps
        /\ nodes' = b.nodes
        /\ calls' = calls + 1
        /\ handlerLog' = handlerLog \o b.invoked
        /\ last' = [name |-> name, attributes |-> attributes,
                    before |-> deref(maps, attributes), rawContents |-> rawContents,
                    nodesBefore |-> Len(nodes), logBefore |-> Len(handlerLog),
                    ret |-> b.ret]
        /\ watch' = IF watch.phase = "first" THEN [watch EXCEPT !.phase = "called"]
                    ELSE watch

\* One call nodes[n].toString().  The first node so rendered is watched: its
\* first output is kept, and the output of its latest rendering.  The phase
\* of the watch is first after the first rendering, called once a
\* createElement call has followed it, and again once the node has been
\* rendered after that call.
render(n) ==
    LET out == toString(nodes, maps, n)
    IN  /\ watch' = IF watch.node = 0
                    THEN [node |-> n, first |-> out, latest |-> out, phase |-> "first"]
                    ELSE IF watch.node = n
                    THEN [watch EXCEPT !.latest = out,
                                       !.phase = IF @ = "first" THEN "first" ELSE "again"]
                    ELSE watch
        /\ UNCHANGED <<maps, nodes, calls, handlerLog, last>>

Render == \E n \in 1..Len(nodes) : render(n)

(***************************************************************************)
(* Spec: a caller that holds one attribute object and makes up to MaxCalls *)
(* createElement calls, reusing the object and the nodes built so far, and *)
(* renders any node at any time.                                           *)
(***************************************************************************)

MaxCalls == 2

Entry(k, v) == [k |-> k, v |-> v]

MapLiterals ==
    { <<>>,
      <<Entry("disabled", Bool(FALSE))>>,
      <<Entry("dangerousInnerHtml", Str("<b>x</b>"))>>,
      <<Entry("dangerousInnerHtml", Str(""))>>,
      <<Entry("dangerousInnerHtml", Num(0))>>,
      <<Entry("dangerousInnerHtml", Bool(FALSE))>>,
      <<Entry("dangerousInnerHtml", Num(7)), Entry("id", Str("a"))>> }

Names == {Str("div"), Str("input"), Fn("Section")}

\* The children a call may pass when the node heap holds k nodes.
Contents(k) ==
    {<<>>, <<Str("a<b")>>}
    \cup (IF k = 0 THEN {} ELSE {<<Arr(<<NodeRef(k), Str("&")>>)>>})

Init ==
    /\ maps \in {<<m>> : m \in MapLiterals}
    /\ nodes = <<>>
    /\ calls = 0
    /\ handlerLog = <<>>
    /\ last = NoCall
    /\ watch = NoWatch

Build ==
    /\ calls < MaxCalls
    /\ \E name \in Names, attributes \in 0..Len(maps), rawContents \in Contents(Len(nodes)) :
          createElement(name, attributes, rawContents)

Next == Build \/ Render

Spec == Init /\ [][Next]_vars

(***************************************************************************)
(* SpecNames: one createElement call for each tag name of a family of      *)
(* names, without and with a child, and the rendering of what it built.    *)
(***************************************************************************)

MaxNameLen == 3

\* The strings of at most n characters over the alphabet A.
RECURSIVE StringsUpTo(_, _)
StringsUpTo(A, n) ==
    IF n = 0 THEN {""}
    ELSE LET S == StringsUpTo(A, n - 1) IN S \cup {s \o c : s \in S, c \in A}

NameInputs ==
    StringsUpTo({"a", "B", "Z", "-"}, MaxNameLen)
    \cup {voidElements[i] : i \in 1..Len(voidElements)}
    \cup {"div", "ID", "Div", "dataFoo", "XMLHttpRequest", "Img", "inputs"}

InitNames ==
    /\ maps = <<>>
    /\ nodes = <<>>
    /\ calls = 0
    /\ handlerLog = <<>>
    /\ last = NoCall
    /\ watch = NoWatch

BuildNamed ==
    /\ calls = 0
    /\ \E name \in NameInputs, rawContents \in {<<>>, <<Str("x")>>, <<Arr(<<>>)>>} :
          createElement(Str(name), 0, rawContents)

NextNames == BuildNamed \/ Render

SpecNames == InitNames /\ [][NextNames]_vars

(***************************************************************************)
(* SpecContents: a first call builds a child element (a RenderNode holding *)
(* a TextNode), a second call passes a family of children: every short     *)
(* text, the other primitive values, and every nesting of arrays up to a   *)
(* size.                                                                   *)
(***************************************************************************)

MaxTextLen == 3

MaxSize == 4

TextInputs == StringsUpTo({"&", "<", ">", "\"", "a", ";"}, MaxTextLen) \cup {"&<>\""}

PrimitiveInputs ==
    {Num(0), Num(42), Num(-7), Bool(TRUE), Bool(FALSE), Null, Undefined}

LeafInputs == {Str("<"), Num(5), NodeRef(1), NodeRef(2)}

\* The sequences of children that hold n values in all, arrays counted, and
\* the single children of that size.
RECURSIVE ContentsOfSize(_), ContentOfSize(_)
ContentsOfSize(n) ==
    IF n = 0 THEN {<<>>}
    ELSE UNION { {<<c>> \o rest : c \in ContentOfSize(k), rest \in ContentsOfSize(n - k)}
                 : k \in 1..n }

ContentOfSize(k) ==
    IF k = 1 THEN LeafInputs \cup {Arr(<<>>)}
    ELSE {Arr(items) : items \in ContentsOfSize(k - 1)}

ContentInputs ==
    {<<Str(s)>> : s \in TextInputs}
    \cup {<<p>> : p \in PrimitiveInputs}
    \cup UNION {ContentsOfSize(n) : n \in 0..MaxSize}

InitContents ==
    /\ maps = << <<Entry("dangerousInnerHtml", Str("<i>"))>> >>
    /\ nodes = <<>>
    /\ calls = 0
    /\ handlerLog = <<>>
    /\ last = NoCall
    /\ watch = NoWatch

BuildChild ==
    /\ calls = 0
    /\ createElement(Str("b"), 1, <<Str("dropped")>>)

BuildParent ==
    /\ calls = 1
    /\ \E name \in {Str("div"), Fn("Section")}, rawContents \in ContentInputs :
          createElement(name, 0, rawContents)

RenderBuilt ==
    /\ calls = 2
    /\ render(last.ret)

NextContents == BuildChild \/ BuildParent \/ RenderBuilt

SpecContents == InitContents /\ [][NextContents]_vars

(***************************************************************************)
(* SpecAttrs: the caller's attribute object is one of a family of objects  *)
(* of one to three entries; one call builds an element with it, which is   *)
(* then rendered.                                                          *)
(***************************************************************************)

MaxAttrLen == 2

AttrKeys == {"id", "dataFoo", "ariaLabelText"}

AttrValueInputs ==
    {Str(s) : s \in StringsUpTo({"&", "\"", NBSP, "a", ";"}, MaxAttrLen)}
    \cup {Num(0), Num(15), Num(-3), Bool(TRUE), Bool(FALSE), Null, Undefined,
          DateOf(0, 0), DateOf(11016, 86399999), DateOf(20398, 3723004)}

FewValueInputs ==
    {Str("a\"&"), Bool(TRUE), Bool(FALSE), Num(5), DateOf(0, 1), Undefined}

AttrMapInputs ==
    {<<Entry(k, v)>> : k \in AttrKeys, v \in AttrValueInputs}
    \cup {<<Entry(ks[1], v1), Entry(ks[2], v2)>> :
            ks \in {p \in AttrKeys \X AttrKeys : p[1] # p[2]},
            v1 \in FewValueInputs, v2 \in FewValueInputs}
    \cup {<<Entry("id", v1), Entry("dataFoo", v2), Entry("ariaLabelText", v3)>> :
            v1 \in FewValueInputs, v2 \in FewValueInputs, v3 \in FewValueInputs}

InitAttrs ==
    /\ maps \in {<<m>> : m \in AttrMapInputs}
    /\ nodes = <<>>
    /\ calls = 0
    /\ handlerLog = <<>>
    /\ last = NoCall
    /\ watch = NoWatch

BuildWithAttrs ==
    /\ calls = 0
    /\ \E name \in {Str("a"), Str("input")} : createElement(name, 1, <<>>)

NextAttrs == BuildWithAttrs \/ Render

SpecAttrs == InitAttrs /\ [][NextAttrs]_vars

(***************************************************************************)
(* What the properties are stated with                                     *)
(***************************************************************************)

DIH == "dangerousInnerHtml"

UpperLetters ==
    {"A", "B", "C", "D", "E", "F", "G", "H", "I", "J", "K", "L", "M",
     "N", "O", "P", "Q", "R", "S", "T", "U", "V", "W", "X", "Y", "Z"}

VoidTagNames ==
    {"area", "base", "br", "col", "command", "embed", "hr", "img", "input",
     "keygen", "link", "meta", "param", "source", "track", "wbr"}

HasUpper(s) == \E i \in 1..Len(s) : SubSeq(s, i, i) \in UpperLetters

HasChar(s, c) == \E i \in 1..Len(s) : SubSeq(s, i, i) = c

StartsWith(s, prefix) == Len(s) >= Len(prefix) /\ SubSeq(s, 1, Len(prefix)) = prefix

\* The text escape as one pass: each character by itself.
RECURSIVE TextEscaped(_)
TextEscaped(s) ==
    IF s = "" THEN ""
    ELSE LET c == SubSeq(s, 1, 1)
         IN  (CASE c = "&"  -> "&amp;"
                [] c = "<"  -> "&lt;"
                [] c = ">"  -> "&gt;"
                [] c = "\"" -> "&quot;"
                [] OTHER    -> c) \o TextEscaped(Tail(s))

\* The number of values that are not arrays in a nest of children.
RECURSIVE LeafCount(_)
LeafCount(contents) ==
    IF Len(contents) = 0 THEN 0
    ELSE (IF Head(contents).t = "array" THEN LeafCount(Head(contents).items) ELSE 1)
         + LeafCount(Tail(contents))

\* The i-th of them, depth first and left to right.
RECURSIVE LeafAt(_, _)
LeafAt(contents, i) ==
    LET h == Head(contents)
        c == IF h.t = "array" THEN LeafCount(h.items) ELSE 1
    IN  IF i <= c
        THEN (IF h.t = "array" THEN LeafAt(h.items, i) ELSE h)
        ELSE LeafAt(Tail(contents), i - c)

\* What a leaf becomes in the flat sequence.
Flattened(leaf) ==
    IF leaf.t = "node" THEN leaf ELSE Str(TextEscaped(concatToString(leaf)))

\* The last call found a truthy dangerousInnerHtml: its children were
\* replaced by the escape hatch.
LastOverwritten ==
    /\ last.before.t = "object"
    /\ truthy(lookup(last.before.entries, DIH))

\* The node the watched rendering is of, and the element the last call built.
Watched == nodes[watch.node]

Built == nodes[last.ret]

WatchedElement == watch.node # 0 /\ Watched.cls = "RenderNode"

\* The strings of the children of a node whose children are all strings.
RECURSIVE StringsOf(_)
StringsOf(children) ==
    IF Len(children) = 0 THEN ""
    ELSE Head(children).s \o StringsOf(Tail(children))

(***************************************************************************)
(* C1                                                                      *)
(***************************************************************************)

C3_AnyValueOverwrites ==
    (/\ last.ret # 0
     /\ last.before.t = "object"
     /\ hasKey(last.before.entries, DIH))
    => /\ Len(Built.children) = 1
       /\ Built.children[1].t = "node"
       /\ nodes[Built.children[1].ref]
            = TextNode(concatToString(lookup(last.before.entries, DIH)))
       /\ ~hasKey(maps[last.attributes], DIH)

(***************************************************************************)
(* C4                                                                      *)
(***************************************************************************)

\* C4: in a call whose children are not replaced by the escape hatch, every
\* child that is neither a node nor an array arrives in the element as the
\* string of its value with each & < > " replaced by its entity, once, and
\* every other character kept: the string holds no raw < > or ", and the
\* input &<>" becomes &amp;&lt;&gt;&quot;.
C4_TextChildrenEscaped ==
    (last.ret # 0 /\ ~LastOverwritten)
    => /\ Len(Built.children) = LeafCount(last.rawContents)
       /\ \A i \in 1..LeafCount(last.rawContents) :
             LET leaf == LeafAt(last.rawContents, i)
             IN  leaf.t # "node"
                 => /\ Built.children[i].t = "string"
                    /\ Built.children[i].s = TextEscaped(concatToString(leaf))
                    /\ ~HasChar(Built.children[i].s, "<")
                    /\ ~HasChar(Built.children[i].s, ">")
                    /\ ~HasChar(Built.children[i].s, "\"")
       /\ (last.rawContents = <<Str("&<>\"")>>
           => Built.children = <<Str("&amp;&lt;&gt;&quot;")>>)

C4_Witness ==
    /\ last.ret # 0
    /\ last.rawContents = <<Str("&<>\"")>>
    /\ Built.children = <<Str("&amp;&lt;&gt;&quot;")>>

(***************************************************************************)
(* C5                                                                      *)
(***************************************************************************)

\* C5: the tagName of every element built from a string name holds no
\* uppercase letter, and the name ID gives the tag id.
C5_TagNameLowerCased ==
    /\ \A n \in 1..Len(nodes) :
          nodes[n].cls = "RenderNode" => ~HasUpper(nodes[n].tagName)
    /\ (last.ret # 0 /\ last.name = Str("ID")) => Built.tagName = "id"

(***************************************************************************)
(* C6                                                                      *)
(***************************************************************************)

\* C6, the state part: every rendering of a node gave what its first
\* rendering gave, and a rendering now would give it again, whatever calls
\* of createElement and renderings came in between.
C6_SameAsFirst ==
    watch.node # 0
    => /\ watch.latest = watch.first
       /\ toString(nodes, maps, watch.node) = watch.first

\* C6, the step part: a rendering changes no node and no attribute object.
C6_ReadOnly == (calls' = calls) => (nodes' = nodes /\ maps' = maps)

\* C6: rendering is repeatable and read-only.
C6_RenderRepeatable == []C6_SameAsFirst /\ [][C6_ReadOnly]_vars

C6_Witness ==
    /\ WatchedElement
    /\ Watched.attributes # 0
    /\ watch.phase = "again"
    /\ last.ret > watch.node
    /\ last.attributes = Watched.attributes

(***************************************************************************)
(* C7                                                                      *)
(***************************************************************************)

\* C7: a call whose name is a handler invokes the handler once, with the
\* attribute object of the call and the flattened children, and returns what
\* the handler returned: no node is built around it.
C7_HandlerInvokedOnce ==
    (last.ret # 0 /\ last.name.t = "function")
    => /\ Len(handlerLog) = last.logBefore + 1
       /\ LET invocation == handlerLog[Len(handlerLog)]
              expected == IF LastOverwritten
                          THEN <<NodeRef(last.nodesBefore + 1)>>
                          ELSE [i \in 1..LeafCount(last.rawContents) |->
                                   Flattened(LeafAt(last.rawContents, i))]
          IN  /\ invocation.h = last.name.h
              /\ invocation.attributes = last.attributes
              /\ invocation.contents = expected
              /\ last.ret = invocation.ret
              /\ Len(nodes) = invocation.ret
              /\ Built = RenderNode("section", last.attributes, expected)

C7_Witness ==
    /\ last.ret # 0
    /\ last.name.t = "function"
    /\ last.attributes # 0
    /\ LeafCount(last.rawContents) = 2
    /\ Len(handlerLog) = 2

(***************************************************************************)
(* C8                                                                      *)
(***************************************************************************)

\* C8: the tag of a name that starts with an uppercase letter does not start
\* with a hyphen.
C8_NoLeadingHyphenAdded ==
    (/\ last.ret # 0
     /\ last.name.t = "string"
     /\ last.name.s # ""
     /\ SubSeq(last.name.s, 1, 1) \in UpperLetters)
    => ~StartsWith(Built.tagName, "-")

(***************************************************************************)
(* C9                                                                      *)
(***************************************************************************)

\* C9: the children of the element are the leaves of the children passed,
\* depth first and left to right, as many as there are leaves; a leaf that is
\* a node is the same reference, any other leaf its escaped string; the nodes
\* that were there are as they were, and the call allocates the element only.
C9_FlattenDepthFirst ==
    (last.ret # 0 /\ ~LastOverwritten)
    => /\ last.ret = Len(nodes)
       /\ Len(Built.children) = LeafCount(last.rawContents)
       /\ \A i \in 1..Len(Built.children) :
             Built.children[i] = Flattened(LeafAt(last.rawContents, i))
       /\ Len(nodes) = last.nodesBefore + 1
       /\ (calls = 2 => /\ nodes[1] = TextNode("<i>")
                        /\ nodes[2] = RenderNode("b", 1, <<NodeRef(1)>>))

C9_Witness ==
    /\ calls = 2
    /\ last.rawContents = <<Str("<"), Arr(<<Arr(<<NodeRef(2)>>)>>)>>
    /\ Built.children = <<Str("&lt;"), NodeRef(2)>>

(***************************************************************************)
(* C10                                                                     *)
(***************************************************************************)

\* The attribute names of the keys of AttrKeys.
KebabOf(k) ==
    CASE k = "id"            -> "id"
      [] k = "dataFoo"       -> "data-foo"
      [] k = "ariaLabelText" -> "aria-label-text"

\* The ISO 8601 strings of the dates of the inputs.
IsoOf(v) ==
    CASE v = DateOf(0, 0)            -> "1970-01-01T00:00:00.000Z"
      [] v = DateOf(0, 1)            -> "1970-01-01T00:00:00.001Z"
      [] v = DateOf(11016, 86399999) -> "2000-02-29T23:59:59.999Z"
      [] v = DateOf(20398, 3723004)  -> "2025-11-06T01:02:03.004Z"

\* The attribute escape as three passes, the ampersand first.
AttrEscaped(s) ==
    replaceAll(replaceAll(replaceAll(s, "&", "&amp;"), "\"", "&quot;"), NBSP, "&nbsp;")

\* The text of one entry, the empty string for false.
EntryText(e) ==
    CASE e.v.t = "date"      -> KebabOf(e.k) \o "=\"" \o IsoOf(e.v) \o "\""
      [] e.v.t = "boolean"   -> IF e.v.b THEN KebabOf(e.k) ELSE ""
      [] e.v.t = "string"    -> KebabOf(e.k) \o "=\"" \o AttrEscaped(e.v.s) \o "\""
      [] e.v.t = "number"    -> KebabOf(e.k) \o "=\"" \o numberToString(e.v.n) \o "\""
      [] e.v.t = "null"      -> KebabOf(e.k) \o "=\"\""
      [] e.v.t = "undefined" -> KebabOf(e.k) \o "=\"\""

\* The entries that emit, each after one space, in insertion order.
RECURSIVE AttrText(_)
AttrText(entries) ==
    IF Len(entries) = 0 THEN ""
    ELSE (IF EntryText(Head(entries)) = "" THEN "" ELSE " " \o EntryText(Head(entries)))
         \o AttrText(Tail(entries))

\* C10: when an entry of the attribute object emits, the opening tag is the
\* tag name and then, each after a single space and in insertion order, the
\* entries by the type of their value: a Date as name="ISO string", true as
\* the bare name, false as nothing, any other value as name="v", v its string
\* (empty for null and undefined) with each & " and non-breaking space
\* replaced once by its entity; no raw " stands between the quotes.
C10_AttributeText ==
    (/\ WatchedElement
     /\ Watched.attributes # 0
     /\ \E i \in 1..Len(maps[Watched.attributes]) :
           maps[Watched.attributes][i].v # Bool(FALSE))
    => LET entries == maps[Watched.attributes]
           open == "<" \o Watched.tagName \o AttrText(entries) \o ">"
       IN  /\ watch.latest = IF Watched.tagName \in VoidTagNames THEN open
                              ELSE open \o "</" \o Watched.tagName \o ">"
           /\ \A i \in 1..Len(entries) :
                 entries[i].v.t = "string"
                 => /\ ~HasChar(escapeAttrNodeValue(entries[i].v.s), "\"")
                    /\ ~HasChar(escapeAttrNodeValue(entries[i].v.s), NBSP)

C10_Witness ==
    /\ WatchedElement
    /\ maps[1] = <<Entry("id", Str("a\"&")), Entry("dataFoo", Bool(FALSE)),
                   Entry("ariaLabelText", Bool(TRUE))>>
    /\ watch.latest = "<input id=\"a&quot;&amp;\" aria-label-text>"

====
